---- MODULE Spec2Model ----
(***************************************************************************)
(* Model of the download / checksum helpers of cnstd/utils/utils.py:       *)
(* check_sha1, download and get_model_file, acting on a small file system  *)
(* and a remote server whose answers are nondeterministic.                 *)
(*                                                                         *)
(* File contents are byte sequences, hashes are sequences of hex digits.   *)
(* Python's None is <<-1>> for a content or a hash (no byte and no digit   *)
(* is negative) and the string "None" for a path.                          *)
(***************************************************************************)
EXTENDS Integers, Sequences, FiniteSets, TLC

\* ---------------------------------------------------------------- bounds
MaxLen == 1        \* longest file content, in bytes
DigestLen == 2     \* digits of a digest (40 for the real SHA-1)
Base == 2          \* distinct hex digits (16 for the real SHA-1)

StatusOK == 200
\* the statuses the server answers with
Statuses == {StatusOK, 404}

RECURSIVE SeqsUpTo(_, _)
SeqsUpTo(S, n) ==
    IF n = 0 THEN {<<>>}
    ELSE LET shorter == SeqsUpTo(S, n - 1)
         IN  shorter \cup {Append(s, x) : s \in {t \in shorter : Len(t) = n - 1}, x \in S}

RECURSIVE Pow(_, _)
Pow(b, n) == IF n = 0 THEN 1 ELSE b * Pow(b, n - 1)

Min(a, b) == IF a <= b THEN a ELSE b

Bytes == 0 .. 1
Contents == SeqsUpTo(Bytes, MaxLen)
NoFile == <<-1>>

HexDigits == 0 .. (Base - 1)
NoneHash == <<-1>>
\* expected hashes: empty, shorter than a digest, full length, one digit longer
HexStrings == SeqsUpTo(HexDigits, DigestLen + 1)
\* the sha1_hash arguments given to download
DownloadHashes == {NoneHash} \cup SeqsUpTo(HexDigits, DigestLen)

\* ---------------------------------------------------------------- files
ModelDirs == {"a", "b"}
AVAILABLE_MODELS == {"a"}
ZipPath(model_dir) == IF model_dir = "a" THEN "a.zip" ELSE "b.zip"
Url(model_name) == <<"zoo", ZipPath(model_name)>>
Urls == {Url(m) : m \in AVAILABLE_MODELS}
Files == ModelDirs \cup {ZipPath(m) : m \in ModelDirs}
\* destinations given to download: None, or the path of a regular file
DownloadPaths == {"None", "a.zip"}

\* the archive the model zoo serves for a model
ZooArchive(model_name) == <<1>>

\* ---------------------------------------------------------------- hashing
\* hashlib.sha1(content).hexdigest(): a fixed-length digest that depends on
\* every byte and on the length of the content.
RECURSIVE ContentNum(_)
ContentNum(c) == IF c = <<>> THEN 1 ELSE 2 * ContentNum(SubSeq(c, 1, Len(c) - 1)) + c[Len(c)]

Sha1(content) ==
    LET n == (7 * ContentNum(content) + 3) % Pow(Base, DigestLen)
    IN  [i \in 1 .. DigestLen |-> (n \div Pow(Base, DigestLen - i)) % Base]

check_sha1_strict(content, sha1_hash) == Sha1(content) = sha1_hash

check_sha1(content, sha1_hash) ==
    LET sha1_file == Sha1(content)
        l == Min(Len(sha1_file), Len(sha1_hash))
    IN  SubSeq(sha1_file, 1, l) = SubSeq(sha1_hash, 1, l)

\* Python truthiness of the sha1_hash argument: None and '' are false
Truthy(sha1_hash) == sha1_hash # NoneHash /\ sha1_hash # <<>>

\* ---------------------------------------------------------------- archives
\* zipfile.ZipFile(path) raises BadZipFile unless the file is an archive (an
\* empty file is none); extractall writes the archive's members, a tree that
\* is identified here by the bytes of the archive it comes from
IsZip(content) == content # NoFile /\ Len(content) >= 1
Unzip(content) == content

\* ---------------------------------------------------------------- server
\* an answer of the server to a GET: a status and, with status 200, a body.
\* Any body may arrive: the repository may be outdated or the download
\* incomplete.
Responses ==
    {[status |-> st, body |-> <<>>] : st \in Statuses \ {StatusOK}}
    \cup [status : {StatusOK}, body : Contents]

\* ---------------------------------------------------------------- download
Fname(url, path) == IF path = "None" THEN url[Len(url)] ELSE path

NeedFetch_no_hash(fsx, fname, overwrite, sha1_hash) ==
    overwrite \/ fsx[fname] = NoFile

NeedFetch(fsx, fname, overwrite, sha1_hash) ==
    \/ overwrite
    \/ fsx[fname] = NoFile
    \/ (Truthy(sha1_hash) /\ ~check_sha1(fsx[fname], sha1_hash))

PostCheckFails_skipped(content, sha1_hash) == FALSE

PostCheckFails(content, sha1_hash) ==
    Truthy(sha1_hash) /\ ~check_sha1(content, sha1_hash)

Result(fsx, outcome, ret, requested, written, status) ==
    [fs |-> fsx, outcome |-> outcome, ret |-> ret, requested |-> requested,
     written |-> written, status |-> status]

download(fsx, url, path, overwrite, sha1_hash, resp) ==
    LET fname == Fname(url, path)
        fs1 == [fsx EXCEPT ![fname] = resp.body]
    IN  IF ~NeedFetch(fsx, fname, overwrite, sha1_hash)
        THEN Result(fsx, "return", fname, {}, {}, {})
        ELSE IF resp.status # StatusOK
        THEN Result(fsx, "RuntimeError", "None", {url}, {}, {resp.status})
        ELSE IF PostCheckFails(fs1[fname], sha1_hash)
        THEN Result(fs1, "UserWarning", "None", {url}, {fname}, {resp.status})
        ELSE Result(fs1, "return", fname, {url}, {fname}, {resp.status})

\* ---------------------------------------------------------------- get_model_file
extract(r, model_dir) ==
    LET zip_file_path == ZipPath(model_dir)
    IN  IF ~IsZip(r.fs[zip_file_path])
        THEN [r EXCEPT !.outcome = "BadZipFile", !.ret = "None"]
        ELSE [r EXCEPT !.fs = [r.fs EXCEPT ![model_dir] = Unzip(r.fs[zip_file_path]),
                                           ![zip_file_path] = NoFile],
                       !.outcome = "return", !.ret = model_dir,
                       !.written = r.written \cup {model_dir}]

get_model_file(fsx, model_dir, resp) ==
    LET zip_file_path == ZipPath(model_dir)
        model_name == model_dir
    IN  IF fsx[zip_file_path] = NoFile
        THEN IF model_name \notin AVAILABLE_MODELS
             THEN Result(fsx, "NotImplementedError", "None", {}, {}, {})
             ELSE LET d == download(fsx, Url(model_name), zip_file_path, TRUE, NoneHash, resp)
                  IN  IF d.outcome # "return" THEN d ELSE extract(d, model_dir)
        ELSE extract(Result(fsx, "return", "None", {}, {}, {}), model_dir)

\* ---------------------------------------------------------------- state
VARIABLES
    fs,      \* the file system: content of each file, NoFile when absent
    call,    \* the last call: operation and arguments
    pre,     \* the file system when the last call started
    res      \* what the last call did: outcome, returned value, requests
             \* issued, files opened for writing, statuses received

vars == <<fs, call, pre, res>>

Call(op, url, path, overwrite, sha1_hash) ==
    [op |-> op, url |-> url, path |-> path, overwrite |-> overwrite, sha1_hash |-> sha1_hash]

TypeOK ==
    /\ fs \in [Files -> Contents \cup {NoFile}]
    /\ pre \in [Files -> Contents \cup {NoFile}]
    /\ call.op \in {"none", "check_sha1", "download", "get_model_file"}

Init ==
    /\ fs = [f \in Files |-> NoFile]
    /\ pre = fs
    /\ call = Call("none", <<>>, "None", FALSE, NoneHash)
    /\ res = [Result(fs, "return", "None", {}, {}, {}) EXCEPT !.fs = <<>>]

CheckSha1 ==
    \E filename \in Files, sha1_hash \in HexStrings :
        LET r == IF fs[filename] = NoFile
                 THEN Result(fs, "FileNotFoundError", "None", {}, {}, {})
                 ELSE Result(fs, "return", check_sha1(fs[filename], sha1_hash), {}, {}, {})
        IN  /\ call' = Call("check_sha1", <<>>, filename, FALSE, sha1_hash)
            /\ pre' = fs
            /\ fs' = r.fs
            /\ res' = [r EXCEPT !.fs = <<>>]

Download ==
    \E url \in Urls, path \in DownloadPaths, overwrite \in BOOLEAN,
       sha1_hash \in DownloadHashes, resp \in Responses :
        LET r == download(fs, url, path, overwrite, sha1_hash, resp)
        IN  /\ call' = Call("download", url, path, overwrite, sha1_hash)
            /\ pre' = fs
            /\ fs' = r.fs
            /\ res' = [r EXCEPT !.fs = <<>>]

GetModelFile ==
    \E model_dir \in ModelDirs, resp \in Responses :
        LET r == get_model_file(fs, model_dir, resp)
        IN  /\ call' = Call("get_model_file", <<>>, model_dir, FALSE, NoneHash)
            /\ pre' = fs
            /\ fs' = r.fs
            /\ res' = [r EXCEPT !.fs = <<>>]

Next == CheckSha1 \/ Download \/ GetModelFile

Spec == Init /\ [][Next]_vars

\* ---------------------------------------------------------------- properties
\* the destination file of the last download call
LastFname == Fname(call.url, call.path)

IsPrefix(s, t) == Len(s) <= Len(t) /\ \A i \in 1 .. Len(s) : s[i] = t[i]

\* a file matches an expected hash when one of the digest and the hash
\* starts with the other
Matches(content, sha1_hash) ==
    IsPrefix(sha1_hash, Sha1(content)) \/ IsPrefix(Sha1(content), sha1_hash)

\* the three cases in which download is said to fetch, on the file system
\* the call started from
FetchCase ==
    \/ call.overwrite
    \/ pre[LastFname] = NoFile
    \/ (call.sha1_hash # NoneHash /\ ~Matches(pre[LastFname], call.sha1_hash))

NoFetchFrame ==
    ~FetchCase => /\ res.requested = {}
                  /\ res.written = {}
                  /\ fs = pre
                  /\ res.outcome = "return"
                  /\ res.ret = LastFname

C2_Original ==
    (call.op = "check_sha1" /\ res.outcome = "return") =>
        (res.ret <=> Sha1(pre[call.path]) = call.sha1_hash)

\* C2 amended: check_sha1 returns True exactly when the digest and the
\* expected hash agree on their first min(len(digest), len(hash)) digits,
\* that is when one of them starts with the other: an empty expected hash
\* always passes, a shorter one passes when it is a prefix of the digest.
C2_PrefixMatch ==
    (call.op = "check_sha1" /\ res.outcome = "return") =>
        (res.ret <=> (IsPrefix(call.sha1_hash, Sha1(pre[call.path]))
                      \/ IsPrefix(Sha1(pre[call.path]), call.sha1_hash)))

\* a non-empty expected hash shorter than the digest passes
C2_Witness ==
    /\ call.op = "check_sha1"
    /\ res.outcome = "return"
    /\ res.ret
    /\ Len(call.sha1_hash) > 0
    /\ Len(call.sha1_hash) < DigestLen

\* C3: when download is called with a non-empty sha1_hash and returns, the
\* file at the returned path passes check_sha1 against that hash, whether the
\* existing file was reused or a new one fetched; when the freshly fetched
\* content does not pass, download raises UserWarning.
C3_ReturnedFilePasses ==
    (call.op = "download" /\ Truthy(call.sha1_hash)) =>
        /\ res.outcome = "return" =>
              /\ res.ret = LastFname
              /\ fs[res.ret] # NoFile
              /\ check_sha1(fs[res.ret], call.sha1_hash)
        /\ (/\ LastFname \in res.written
            /\ ~check_sha1(fs[LastFname], call.sha1_hash)) => res.outcome = "UserWarning"

\* a file that did not pass was replaced by a fetched one that does
C3_Witness ==
    /\ call.op = "download"
    /\ Truthy(call.sha1_hash)
    /\ Len(call.sha1_hash) = DigestLen
    /\ pre[LastFname] # NoFile
    /\ ~check_sha1(pre[LastFname], call.sha1_hash)
    /\ LastFname \in res.written
    /\ res.outcome = "return"

\* the model directory holds something else than what the zoo's archive
\* extracts to
Mismatched(fsx, model_dir) ==
    fsx[model_dir] # NoFile /\ fsx[model_dir] # Unzip(ZooArchive(model_dir))

\* C4 as stated: whenever model_dir is absent or its content is mismatched,
\* a call of get_model_file with an available model name fetches the model
\* archive before it returns model_dir.
C4_Original ==
    (/\ call.op = "get_model_file"
     /\ call.path \in AVAILABLE_MODELS
     /\ res.outcome = "return"
     /\ (pre[call.path] = NoFile \/ Mismatched(pre, call.path))) => res.requested # {}

====
